---- MODULE Spec2Model ----
(***************************************************************************)
(* 1-Wire driver for the RP2040: the PIO program `onewire` (the engine),   *)
(* the class OneWire (the controller: reset, write_byte, read_byte,        *)
(* rom_search, crc8) and the class DS18B20 (scan, read_temperatures).      *)
(*                                                                         *)
(* The engine and the controller are two processes joined by the TX and RX *)
(* FIFOs of the state machine.  The devices on the bus are the             *)
(* environment: a wired-AND line on which every selected device pulls low  *)
(* when it sends a 0.  Timing is abstracted to the order of bus events:    *)
(* one reset sequence and one bit slot are the units of bus activity.      *)
(*                                                                         *)
(* Words the engine pushes are 32 bits wide; they are kept as the set of   *)
(* the positions of their 1 bits, so that bit 31 is representable.  ROM    *)
(* codes are RomBytes bytes wide (8 in the code).                          *)
(***************************************************************************)
EXTENDS Integers, Sequences, FiniteSets

\* ------------------------------------------------------------------ bounds

\* Bytes of a ROM code (the code has 8: range(64) bit positions, range(8) bytes).
RomBytes == 1
\* Largest number of devices on the bus at the start.
MaxDevices == 3
\* Largest number of scan() calls made on one object.
MaxCalls == 2
\* Longest byte sequence given to crc8 before its check byte is added.
MaxCrcLen == 3

\* ------------------------------------------------------- program constants

SEARCH_ROM == 240
MATCH_ROM == 85
SKIP_ROM == 204
CONVERT_T == 68
READ_SCRATCHPAD == 190
\* FIFO depth tested by _put_blocking (tx_fifo() == 4).
FifoDepth == 4
\* Bits of the search command, sent one per element (range(8)).
CmdBits == 8
\* timeout = 100 in read_temperatures.
PollTimeout == 100
\* bytearray(9): the scratchpad with its CRC byte.
ScratchLen == 9
\* PIN_NUM of main.py.
PIN_NUM == 17
\* Position of the bit tested by val & 0x80000000.
TopBitPos == 31

RomBits == 8 * RomBytes

\* --------------------------------------------------------------- arithmetic

RECURSIVE Pow2(_)
Pow2(n) == IF n = 0 THEN 1 ELSE 2 * Pow2(n - 1)

\* (v >> n) & 1
BitOf(v, n) == (v \div Pow2(n)) % 2

RECURSIVE XorN(_, _, _)
XorN(p, q, n) ==
    IF n = 0 THEN 0
    ELSE ((p + q) % 2) + 2 * XorN(p \div 2, q \div 2, n - 1)

\* a ^ b on bytes
Xor8(p, q) == XorN(p, q, 8)

\* v | (1 << n)
SetBit(v, n) == IF BitOf(v, n) = 1 THEN v ELSE v + Pow2(n)

RECURSIVE SumBits(_, _)
SumBits(S, base) ==
    IF S = {} THEN 0
    ELSE LET j == CHOOSE e \in S : TRUE
         IN  Pow2(j - base) + SumBits(S \ {j}, base)

VARIABLES
    \* ---- OneWire object
    pin_num,            \* self.pin_num
    bits,               \* self._bits
    \* ---- state machine (engine)
    epc,                \* position in the PIO program
    sm_thresh,          \* push_thresh = pull_thresh of the running state machine
    x,                  \* scratch register X
    osr, osrLeft,       \* output shift register and the bits left in it
    isr, isrCount,      \* input shift register (set of 1 positions) and its count
    txf, rxf,           \* TX and RX FIFO
    \* ---- control flow of the controller
    pc,                 \* position of the controller
    exc,                \* an exception is propagating
    ret,                \* value returned by the rom_search or pure call that ended last
    readings,           \* value returned by the read_temperatures call that ended last
    \* ---- locals of rom_search
    found_roms, rom_code, last_discrepancy, finished,
    i, direction, current_rom, discrepancy_marker, b1, b2,
    \* ---- DS18B20 object and locals of read_temperatures
    roms,               \* self.roms
    results, timeout, k, b, data,
    \* ---- bus and devices (environment)
    devices,            \* ROM codes of the devices on the bus
    active,             \* devices still taking part in the transaction
    dphase,             \* protocol phase of the devices
    dcnt, dcmd,         \* bits received in the phase, command being received
    busy,               \* read slots for which a conversion still holds the line low
    pads,               \* scratchpad of each device
    gpio,               \* GPIOs other than the bus pin that read high
    \* ---- history
    changed,            \* the bus changed since the start
    nput,               \* elements submitted to the TX FIFO in the current call
    nreset,             \* reset() calls made in the current call
    calls               \* rom_search calls started since the construction

engine == <<epc, sm_thresh, x, osr, osrLeft, isr, isrCount, txf, rxf>>
searchLocals == <<found_roms, rom_code, last_discrepancy, finished,
                  i, direction, current_rom, discrepancy_marker, b1, b2>>
readLocals == <<results, timeout, k, b, data, readings>>
busVars == <<devices, active, dphase, dcnt, dcmd, busy, pads, gpio>>
vars == <<pin_num, calls, bits, engine, pc, exc, ret, searchLocals, roms, readLocals,
          busVars, changed, nput, nreset>>

\* ------------------------------------------------------------ bus, devices

\* Bit n (0 = first on the wire) of a scratchpad: bytes go out LSB first.
PadBit(pad, n) == BitOf(pad[(n \div 8) + 1], n % 8)

\* Whether device d holds the line low in a read slot of the current phase.
PullsLow(d) ==
    CASE dphase = "search0" -> BitOf(d, dcnt) = 0
      [] dphase = "search1" -> BitOf(d, dcnt) = 1
      [] dphase = "convert" -> busy > 0
      [] dphase = "readpad" -> dcnt < 8 * ScratchLen /\ PadBit(pads[d], dcnt) = 0
      [] OTHER -> FALSE

\* Level of the wired-AND line at the sample point of a slot the master released.
LineLevel == IF \E d \in active : PullsLow(d) THEN 0 ELSE 1

\* Level of the line at the presence-detect sample of a reset sequence.
PresenceLevel == IF devices = {} THEN 1 ELSE 0

\* Phase a ROM command byte leads to.
AfterRomCmd(c) ==
    CASE c = SEARCH_ROM -> "search0"
      [] c = MATCH_ROM -> "match"
      [] c = SKIP_ROM -> "funccmd"
      [] OTHER -> "idle"

\* Phase a function command byte leads to.
AfterFuncCmd(c) ==
    CASE c = CONVERT_T -> "convert"
      [] c = READ_SCRATCHPAD -> "readpad"
      [] OTHER -> "idle"

\* State of the devices after a slot in which the master wrote bit w; conv is
\* the length (in read slots) of a conversion started by this slot.
DeviceSlot(w, conv) ==
    LET s == [active |-> active, dphase |-> dphase, dcnt |-> dcnt,
              dcmd |-> dcmd, busy |-> busy]
        c == dcmd + w * Pow2(dcnt)
        keep == {d \in active : BitOf(d, dcnt) = w}
    IN  CASE dphase = "romcmd" ->
               IF dcnt + 1 < 8
               THEN [s EXCEPT !.dcnt = dcnt + 1, !.dcmd = c]
               ELSE [s EXCEPT !.dphase = AfterRomCmd(c), !.dcnt = 0, !.dcmd = 0]
          [] dphase = "funccmd" ->
               IF dcnt + 1 < 8
               THEN [s EXCEPT !.dcnt = dcnt + 1, !.dcmd = c]
               ELSE [s EXCEPT !.dphase = AfterFuncCmd(c), !.dcnt = 0, !.dcmd = 0,
                              !.busy = IF c = CONVERT_T THEN conv ELSE 0]
          [] dphase = "search0" -> [s EXCEPT !.dphase = "search1"]
          [] dphase = "search1" -> [s EXCEPT !.dphase = "search2"]
          [] dphase \in {"search2", "match"} ->
               IF dcnt + 1 < RomBits
               THEN [s EXCEPT !.active = keep, !.dcnt = dcnt + 1,
                              !.dphase = IF dphase = "match" THEN "match" ELSE "search0"]
               ELSE [s EXCEPT !.active = keep, !.dcnt = 0, !.dphase = "funccmd"]
          [] dphase = "convert" ->
               [s EXCEPT !.busy = IF busy > 0 THEN busy - 1 ELSE 0]
          [] dphase = "readpad" ->
               [s EXCEPT !.dcnt = IF dcnt < 8 * ScratchLen THEN dcnt + 1 ELSE dcnt]
          [] OTHER -> s

\* State of the devices after a reset pulse: every device on the bus listens
\* for a ROM command again.
DeviceReset ==
    [active |-> devices, dphase |-> IF devices = {} THEN "idle" ELSE "romcmd",
     dcnt |-> 0, dcmd |-> 0, busy |-> 0]

SetDevices(s) ==
    /\ active' = s.active
    /\ dphase' = s.dphase
    /\ dcnt' = s.dcnt
    /\ dcmd' = s.dcmd
    /\ busy' = s.busy

\* Conversion lengths, in read slots: done at once, done during the second
\* poll, not done within the poll budget.
ConvSlots == {0, 12, 8 * PollTimeout}

\* ------------------------------------------------------------------ engine

\* mov(isr, pins): bit j of the word is the level of GPIO (in_base + j) mod 32,
\* and in_base is the bus pin (in_base=self.pin).
PinsSnapshot(level) ==
    LET high == gpio \cup (IF level = 1 THEN {pin_num} ELSE {})
    IN  {(g + 32 - pin_num) % 32 : g \in high}

\* in_shiftdir = SHIFT_RIGHT: one bit enters the ISR at bit 31.
ShiftIn(w, s) == {j - 1 : j \in w \ {0}} \cup (IF s = 1 THEN {TopBitPos} ELSE {})

\* A faulty variant of the re-initialization: the output channel keeps what
\* it held.
RestartSm_KeepsRx(n) ==
    /\ epc' = "reset"
    /\ sm_thresh' = n
    /\ osr' = 0
    /\ osrLeft' = 0
    /\ isr' = {}
    /\ isrCount' = 0
    /\ txf' = <<>>
    /\ UNCHANGED <<x, rxf>>

\* rp2.StateMachine(...): the state machine restarts at the first instruction
\* with empty FIFOs and shift registers and the given thresholds.
RestartSm(n) ==
    /\ epc' = "reset"
    /\ sm_thresh' = n
    /\ osr' = 0
    /\ osrLeft' = 0
    /\ isr' = {}
    /\ isrCount' = 0
    /\ txf' = <<>>
    /\ rxf' = <<>>
    /\ UNCHANGED x

\* A faulty variant of the reset sequence: the sample is not pushed.
EngineResetSample_NoPush ==
    /\ epc = "reset"
    /\ isr' = {}
    /\ isrCount' = 0
    /\ epc' = "reset_finish"
    /\ SetDevices(DeviceReset)
    /\ UNCHANGED <<sm_thresh, x, osr, osrLeft, txf, rxf>>
    /\ UNCHANGED <<pin_num, calls, bits, pc, exc, ret, searchLocals, roms, readLocals,
                   devices, pads, gpio, changed, nput, nreset>>

\* label("reset") .. push(): the reset pulse, the presence-detect sample.
EngineResetSample ==
    /\ epc = "reset"
    /\ Len(rxf) < FifoDepth
    /\ rxf' = Append(rxf, PinsSnapshot(PresenceLevel))
    /\ isr' = {}
    /\ isrCount' = 0
    /\ epc' = "reset_finish"
    /\ SetDevices(DeviceReset)
    /\ UNCHANGED <<sm_thresh, x, osr, osrLeft, txf>>
    /\ UNCHANGED <<pin_num, calls, bits, pc, exc, ret, searchLocals, roms, readLocals,
                   devices, pads, gpio, changed, nput, nreset>>

\* set(x, 19) .. jmp(x_dec, "reset_finish"): the recovery time.
EngineResetFinish ==
    /\ epc = "reset_finish"
    /\ epc' = "fetch_bit"
    /\ x' = -1
    /\ UNCHANGED <<sm_thresh, osr, osrLeft, isr, isrCount, txf, rxf>>
    /\ UNCHANGED <<pin_num, calls, bits, pc, exc, ret, searchLocals, roms, readLocals,
                   busVars, changed, nput, nreset>>

\* out(x, 1) with autopull: the OSR is refilled from the TX FIFO when the
\* threshold is reached; the instruction stalls while there is nothing to pull.
EngineFetchBit ==
    /\ epc = "fetch_bit"
    /\ IF osrLeft = 0
       THEN /\ txf # <<>>
            /\ x' = Head(txf) % 2
            /\ osr' = Head(txf) \div 2
            /\ osrLeft' = sm_thresh - 1
            /\ txf' = Tail(txf)
       ELSE /\ x' = osr % 2
            /\ osr' = osr \div 2
            /\ osrLeft' = osrLeft - 1
            /\ UNCHANGED txf
    /\ epc' = "slot"
    /\ UNCHANGED <<sm_thresh, isr, isrCount, rxf>>
    /\ UNCHANGED <<pin_num, calls, bits, pc, exc, ret, searchLocals, roms, readLocals,
                   busVars, changed, nput, nreset>>

\* A faulty variant of the bit slot: the write-0 slot shifts nothing into the
\* ISR (the in_(null, 1) is missing).
EngineSlot_NoDummy ==
    /\ epc = "slot"
    /\ IF x = 1
       THEN LET w == ShiftIn(isr, LineLevel)
            IN  IF isrCount + 1 >= sm_thresh
                THEN /\ Len(rxf) < FifoDepth
                     /\ rxf' = Append(rxf, w)
                     /\ isr' = {}
                     /\ isrCount' = 0
                ELSE /\ isr' = w
                     /\ isrCount' = isrCount + 1
                     /\ UNCHANGED rxf
       ELSE UNCHANGED <<isr, isrCount, rxf>>
    /\ \E conv \in ConvSlots :
           /\ (dphase = "funccmd" /\ dcnt = 7 /\ dcmd + x * Pow2(7) = CONVERT_T)
                  \/ conv = 0
           /\ SetDevices(DeviceSlot(x, conv))
    /\ epc' = "fetch_bit"
    /\ x' = -1
    /\ UNCHANGED <<sm_thresh, osr, osrLeft, txf>>
    /\ UNCHANGED <<pin_num, calls, bits, pc, exc, ret, searchLocals, roms, readLocals,
                   devices, pads, gpio, changed, nput, nreset>>

\* The bit slot: a 1 releases the line and samples it (in_(pins, 1)), a 0
\* holds it low and shifts in a constant zero (in_(null, 1)); autopush at the
\* threshold.
EngineSlot ==
    /\ epc = "slot"
    /\ LET s == IF x = 1 THEN LineLevel ELSE 0
           w == ShiftIn(isr, s)
       IN  IF isrCount + 1 >= sm_thresh
           THEN /\ Len(rxf) < FifoDepth
                /\ rxf' = Append(rxf, w)
                /\ isr' = {}
                /\ isrCount' = 0
           ELSE /\ isr' = w
                /\ isrCount' = isrCount + 1
                /\ UNCHANGED rxf
    /\ \E conv \in ConvSlots :
           /\ (dphase = "funccmd" /\ dcnt = 7 /\ dcmd + x * Pow2(7) = CONVERT_T)
                  \/ conv = 0
           /\ SetDevices(DeviceSlot(x, conv))
    /\ epc' = "fetch_bit"
    /\ x' = -1
    /\ UNCHANGED <<sm_thresh, osr, osrLeft, txf>>
    /\ UNCHANGED <<pin_num, calls, bits, pc, exc, ret, searchLocals, roms, readLocals,
                   devices, pads, gpio, changed, nput, nreset>>

\* -------------------------------------------------------------- controller

\* OneWire.crc8: Dallas/Maxim CRC-8.
\* One turn of the inner loop: if crc & 0x01: crc = (crc >> 1) ^ 0x8C else crc >>= 1
CrcBit(crc) == IF crc % 2 = 1 THEN Xor8(crc \div 2, 140) ELSE crc \div 2

\* The inner loop, for _ in range(8), for every value of the accumulator.
CrcLoop ==
    [c \in 0..255 |->
        CrcBit(CrcBit(CrcBit(CrcBit(CrcBit(CrcBit(CrcBit(CrcBit(c))))))))]

\* crc ^= byte, then the inner loop, for every accumulator and byte.
CrcStep == [c \in 0..255 |-> [v \in 0..255 |-> CrcLoop[Xor8(c, v)]]]

CrcByte(crc, byte) == CrcStep[crc][byte]

\* The outer loop over the first n bytes, crc = 0 before it.
RECURSIVE CrcUpTo(_, _)
CrcUpTo(bytes, n) ==
    IF n = 0 THEN 0 ELSE CrcByte(CrcUpTo(bytes, n - 1), bytes[n])

\* A faulty variant of crc8: the loop stops one byte early.
crc8_SkipsLast(bytes) ==
    IF bytes = <<>> THEN 0 ELSE CrcUpTo(bytes, Len(bytes) - 1)

crc8(bytes) == CrcUpTo(bytes, Len(bytes))

\* ((val >> self.pin_num) & 1) == 0
Presence(val) == pin_num \notin val

\* 1 if (val & 0x80000000) else 0
TopBit(val) == IF TopBitPos \in val THEN 1 ELSE 0

\* (val >> 24) & 0xFF
TopByte(val) == SumBits({j \in val : j >= 24}, 24)

\* OneWire._init_sm(bits)
init_sm(n) ==
    /\ bits' = n
    /\ RestartSm(n)

\* OneWire._put_blocking(data)
put_blocking(v) ==
    /\ Len(txf) # FifoDepth
    /\ txf' = Append(txf, v)
    /\ nput' = nput + 1
    /\ UNCHANGED <<epc, sm_thresh, x, osr, osrLeft, isr, isrCount, rxf>>

\* OneWire._get_blocking(): the value returned is Head(rxf)
get_blocking ==
    /\ rxf # <<>>
    /\ rxf' = Tail(rxf)
    /\ UNCHANGED <<epc, sm_thresh, x, osr, osrLeft, isr, isrCount, txf>>

\* A faulty variant of the direction rule: at the position of the last
\* discrepancy the 0 branch is taken again.
SearchDirection_RepeatsBranch(v1, v2, pos) ==
    IF v1 # v2 THEN v1
    ELSE IF pos >= last_discrepancy THEN 0
    ELSE BitOf(rom_code, pos)

\* The direction taken at bit position pos after reading the pair (v1, v2).
SearchDirection(v1, v2, pos) ==
    IF v1 # v2 THEN v1
    ELSE IF pos = last_discrepancy THEN 1
    ELSE IF pos > last_discrepancy THEN 0
    ELSE BitOf(rom_code, pos)

\* discrepancy_marker after the pair (v1, v2) at position pos.
SearchMarker(v1, v2, pos) ==
    IF v1 = v2 /\ SearchDirection(v1, v2, pos) = 0 THEN pos ELSE discrepancy_marker

\* What rom_search returns when reset() reports no presence.
NoPresenceResult == <<>>

\* A faulty variant of the return at b1 = b2 = 1: the codes of the earlier
\* passes are dropped.
NoAnswerResult_Empty == <<>>

\* What rom_search returns when both read slots of a position return 1.
NoAnswerResult == found_roms

\* DS18B20.scan() calls rom_search: the locals, then _init_sm(bits=1).
ScanCall ==
    /\ pc = "idle"
    /\ found_roms' = <<>>
    /\ rom_code' = 0
    /\ last_discrepancy' = -1
    /\ finished' = FALSE
    /\ init_sm(1)
    /\ pc' = "rs_while"
    /\ nput' = 0
    /\ nreset' = 0
    /\ calls' = 1
    /\ UNCHANGED <<pin_num, exc, ret, i, direction, current_rom, discrepancy_marker,
                   b1, b2, roms, readLocals, busVars, changed>>

\* while not finished: ... self.reset() starts with _init_sm(self._bits).
RsWhile ==
    /\ pc = "rs_while"
    /\ IF finished
       THEN /\ ret' = found_roms
            /\ pc' = "rs_finally"
            /\ UNCHANGED <<bits, engine, nreset>>
       ELSE /\ init_sm(bits)
            /\ nreset' = nreset + 1
            /\ pc' = "rs_reset"
            /\ UNCHANGED ret
    /\ UNCHANGED <<pin_num, calls, exc, searchLocals, roms, readLocals, busVars, changed, nput>>

\* reset(): val = self._get_blocking(); if not presence: return [].
RsReset ==
    /\ pc = "rs_reset"
    /\ get_blocking
    /\ IF Presence(Head(rxf))
       THEN /\ i' = 0
            /\ pc' = "rs_cmd_put"
            /\ UNCHANGED ret
       ELSE /\ ret' = NoPresenceResult
            /\ pc' = "rs_finally"
            /\ UNCHANGED i
    /\ UNCHANGED <<pin_num, calls, bits, exc, found_roms, rom_code, last_discrepancy,
                   finished, direction, current_rom, discrepancy_marker, b1, b2,
                   roms, readLocals, busVars, changed, nput, nreset>>

\* A faulty variant of the command loop: the whole command byte is submitted
\* as the element.
RsCmdPut_WholeByte ==
    /\ pc = "rs_cmd_put"
    /\ put_blocking(SEARCH_ROM)
    /\ pc' = "rs_cmd_get"
    /\ UNCHANGED <<pin_num, calls, bits, exc, ret, searchLocals, roms, readLocals,
                   busVars, changed, nreset>>

\* for i in range(8): self._put_blocking((self.SEARCH_ROM >> i) & 1)
RsCmdPut ==
    /\ pc = "rs_cmd_put"
    /\ put_blocking(BitOf(SEARCH_ROM, i))
    /\ pc' = "rs_cmd_get"
    /\ UNCHANGED <<pin_num, calls, bits, exc, ret, searchLocals, roms, readLocals,
                   busVars, changed, nreset>>

\* self._get_blocking() of the command loop; after it the locals of the pass.
RsCmdGet ==
    /\ pc = "rs_cmd_get"
    /\ get_blocking
    /\ IF i + 1 < CmdBits
       THEN /\ i' = i + 1
            /\ pc' = "rs_cmd_put"
            /\ UNCHANGED <<direction, current_rom, discrepancy_marker>>
       ELSE /\ direction' = 0
            /\ current_rom' = 0
            /\ discrepancy_marker' = -1
            /\ i' = 0
            /\ pc' = "rs_b1_put"
    /\ UNCHANGED <<pin_num, calls, bits, exc, ret, found_roms, rom_code, last_discrepancy,
                   finished, b1, b2, roms, readLocals, busVars, changed, nput, nreset>>

\* self._put_blocking(1) of the first read slot.
RsB1Put ==
    /\ pc = "rs_b1_put"
    /\ put_blocking(1)
    /\ pc' = "rs_b1_get"
    /\ UNCHANGED <<pin_num, calls, bits, exc, ret, searchLocals, roms, readLocals,
                   busVars, changed, nreset>>

\* b1 = 1 if (val & 0x80000000) else 0
RsB1Get ==
    /\ pc = "rs_b1_get"
    /\ get_blocking
    /\ b1' = TopBit(Head(rxf))
    /\ pc' = "rs_b2_put"
    /\ UNCHANGED <<pin_num, calls, bits, exc, ret, found_roms, rom_code, last_discrepancy,
                   finished, i, direction, current_rom, discrepancy_marker, b2,
                   roms, readLocals, busVars, changed, nput, nreset>>

\* self._put_blocking(1) of the complement slot.
RsB2Put ==
    /\ pc = "rs_b2_put"
    /\ put_blocking(1)
    /\ pc' = "rs_b2_get"
    /\ UNCHANGED <<pin_num, calls, bits, exc, ret, searchLocals, roms, readLocals,
                   busVars, changed, nreset>>

\* b2, then: both 1 -> return found_roms; otherwise the direction and the marker.
RsB2Get ==
    /\ pc = "rs_b2_get"
    /\ get_blocking
    /\ b2' = TopBit(Head(rxf))
    /\ IF b1 = 1 /\ b2' = 1
       THEN /\ ret' = NoAnswerResult
            /\ pc' = "rs_finally"
            /\ UNCHANGED <<direction, discrepancy_marker>>
       ELSE /\ direction' = SearchDirection(b1, b2', i)
            /\ discrepancy_marker' = SearchMarker(b1, b2', i)
            /\ pc' = "rs_dir_put"
            /\ UNCHANGED ret
    /\ UNCHANGED <<pin_num, calls, bits, exc, found_roms, rom_code, last_discrepancy,
                   finished, i, current_rom, b1, roms, readLocals, busVars,
                   changed, nput, nreset>>

\* self._put_blocking(direction)
RsDirPut ==
    /\ pc = "rs_dir_put"
    /\ put_blocking(direction)
    /\ pc' = "rs_dir_get"
    /\ UNCHANGED <<pin_num, calls, bits, exc, ret, searchLocals, roms, readLocals,
                   busVars, changed, nreset>>

\* self._get_blocking(); current_rom |= (1 << i); after the last position the
\* code is recorded and the marker decides whether another pass follows.
RsDirGet ==
    /\ pc = "rs_dir_get"
    /\ get_blocking
    /\ current_rom' = IF direction = 1 THEN SetBit(current_rom, i) ELSE current_rom
    /\ IF i + 1 < RomBits
       THEN /\ i' = i + 1
            /\ pc' = "rs_b1_put"
            /\ UNCHANGED <<rom_code, found_roms, last_discrepancy, finished>>
       ELSE /\ rom_code' = current_rom'
            /\ found_roms' = Append(found_roms, current_rom')
            /\ last_discrepancy' = discrepancy_marker
            /\ finished' = (finished \/ discrepancy_marker = -1)
            /\ pc' = "rs_while"
            /\ UNCHANGED i
    /\ UNCHANGED <<pin_num, calls, bits, exc, ret, direction, discrepancy_marker, b1, b2,
                   roms, readLocals, busVars, changed, nput, nreset>>

\* A faulty variant of the finally block: the framing is left as it is.
RsFinally_NoRestore ==
    /\ pc = "rs_finally"
    /\ pc' = IF exc THEN "raised" ELSE "rs_return"
    /\ UNCHANGED <<pin_num, calls, bits, engine, exc, ret, searchLocals, roms, readLocals,
                   busVars, changed, nput, nreset>>

\* finally: self._init_sm(bits=8)
RsFinally ==
    /\ pc = "rs_finally"
    /\ init_sm(8)
    /\ pc' = IF exc THEN "raised" ELSE "rs_return"
    /\ UNCHANGED <<pin_num, calls, exc, ret, searchLocals, roms, readLocals, busVars,
                   changed, nput, nreset>>

\* A faulty variant of scan(): the codes returned are added to the stored list.
ScanReturn_Merge ==
    /\ pc = "rs_return"
    /\ roms' = roms \o ret
    /\ pc' = "scanned"
    /\ UNCHANGED <<pin_num, calls, bits, engine, exc, ret, searchLocals, readLocals,
                   busVars, changed, nput, nreset>>

\* scan(): self.roms = self.ow.rom_search(); return self.roms
ScanReturn ==
    /\ pc = "rs_return"
    /\ roms' = ret
    /\ pc' = "scanned"
    /\ UNCHANGED <<pin_num, calls, bits, engine, exc, ret, searchLocals, readLocals,
                   busVars, changed, nput, nreset>>

\* Positions of the controller between two calls.
BetweenCalls == {"scanned", "raised", "read_done"}

\* A faulty variant of the start of rom_search: the previous-pass code and
\* the marker are kept from the call before.
ScanAgain_KeepsMarker ==
    /\ pc \in BetweenCalls
    /\ calls < MaxCalls
    /\ calls' = calls + 1
    /\ exc' = FALSE
    /\ found_roms' = <<>>
    /\ finished' = FALSE
    /\ init_sm(1)
    /\ pc' = "rs_while"
    /\ nput' = 0
    /\ nreset' = 0
    /\ UNCHANGED <<pin_num, ret, rom_code, last_discrepancy, i, direction,
                   current_rom, discrepancy_marker, b1, b2, roms, readLocals,
                   busVars, changed>>

\* A further scan() on the same objects, after a call has returned or raised:
\* rom_search sets its locals again, then _init_sm(bits=1).
ScanAgain ==
    /\ pc \in BetweenCalls
    /\ calls < MaxCalls
    /\ calls' = calls + 1
    /\ exc' = FALSE
    /\ found_roms' = <<>>
    /\ rom_code' = 0
    /\ last_discrepancy' = -1
    /\ finished' = FALSE
    /\ init_sm(1)
    /\ pc' = "rs_while"
    /\ nput' = 0
    /\ nreset' = 0
    /\ UNCHANGED <<pin_num, ret, i, direction, current_rom, discrepancy_marker,
                   b1, b2, roms, readLocals, busVars, changed>>

\* ------------------------------------------------- DS18B20.read_temperatures

\* f"0x{rom:016x}": the n hexadecimal digits of v, most significant first
\* (the two characters 0x in front are the same for every code).
RECURSIVE HexDigits(_, _)
HexDigits(v, n) ==
    IF n = 0 THEN <<>> ELSE Append(HexDigits(v \div 16, n - 1), v % 16)

rom_str(rom) == HexDigits(rom, 16)

\* raw = (data[1] << 8) | data[0]; if raw & 0x8000: raw = -((raw ^ 0xFFFF) + 1).
\* temp_c = raw / 16.0 is kept as the number of sixteenths of a degree.
\* A faulty variant of the decoding: the sign bit is not looked at.
Temperature_Unsigned(bytes) == bytes[2] * 256 + bytes[1]

Temperature(bytes) ==
    LET raw == bytes[2] * 256 + bytes[1]
    IN  IF BitOf(raw, 15) = 1 THEN 0 - (XorN(raw, 65535, 16) + 1) ELSE raw

\* An entry of the result: (rom_str, temp_c), temp_c a one-element tuple
\* holding the value, or the empty tuple for None.
None == <<>>
\* A faulty variant of the entry: the bytes are decoded without the CRC test.
Reading_NoCheck(rom, bytes) == <<rom_str(rom), <<Temperature(bytes)>> >>

Reading(rom, bytes) ==
    IF crc8(bytes) = 0
    THEN <<rom_str(rom), <<Temperature(bytes)>> >>
    ELSE <<rom_str(rom), None>>

\* (rom >> (b * 8)) & 0xFF
RomByte(rom, n) == (rom \div Pow2(8 * n)) % 256

\* Whether the poll loop stops on the byte it read.
PollDone(byte) == byte = 255

\* read_temperatures(): results = []; if not self.roms: return []; then the
\* reset() that starts the conversion.
RtCall ==
    /\ pc = "scanned"
    /\ results' = <<>>
    /\ nput' = 0
    /\ IF roms = <<>>
       THEN /\ readings' = <<>>
            /\ pc' = "read_done"
            /\ nreset' = 0
            /\ UNCHANGED <<bits, engine>>
       ELSE /\ init_sm(bits)
            /\ nreset' = 1
            /\ pc' = "rt_reset"
            /\ UNCHANGED readings
    /\ UNCHANGED <<pin_num, calls, exc, ret, searchLocals, roms, timeout, k, b, data,
                   busVars, changed>>

\* if self.ow.reset(): ... else: return []
RtReset ==
    /\ pc = "rt_reset"
    /\ get_blocking
    /\ IF Presence(Head(rxf))
       THEN /\ pc' = "rt_skip_put"
            /\ UNCHANGED readings
       ELSE /\ readings' = <<>>
            /\ pc' = "read_done"
    /\ UNCHANGED <<pin_num, calls, bits, exc, ret, searchLocals, roms, results, timeout, k, b, data, busVars,
                   changed, nput, nreset>>

\* What a _put_blocking and the _get_blocking of an echo leave unchanged.
putFrame == <<pin_num, calls, bits, exc, ret, searchLocals, roms, readLocals, busVars,
              changed, nreset>>

\* self.ow.write_byte(self.ow.SKIP_ROM)
RtSkipPut ==
    /\ pc = "rt_skip_put"
    /\ put_blocking(SKIP_ROM)
    /\ pc' = "rt_skip_get"
    /\ UNCHANGED putFrame

RtSkipGet ==
    /\ pc = "rt_skip_get"
    /\ get_blocking
    /\ pc' = "rt_conv_put"
    /\ UNCHANGED <<pin_num, calls, bits, exc, ret, searchLocals, roms, readLocals,
                   busVars, changed, nput, nreset>>

\* self.ow.write_byte(self.ow.CONVERT_T)
RtConvPut ==
    /\ pc = "rt_conv_put"
    /\ put_blocking(CONVERT_T)
    /\ pc' = "rt_conv_get"
    /\ UNCHANGED putFrame

\* the echo of CONVERT_T, then timeout = 100
RtConvGet ==
    /\ pc = "rt_conv_get"
    /\ get_blocking
    /\ pc' = "rt_poll"
    /\ timeout' = PollTimeout
    /\ UNCHANGED <<pin_num, calls, bits, exc, ret, readings, searchLocals, roms, results, k, b,
                   data, busVars, changed, nput, nreset>>

\* A faulty variant of the poll loop: when the poll runs out the call returns
\* the empty list.
RtPoll_GiveUp ==
    /\ pc = "rt_poll"
    /\ IF timeout > 0
       THEN /\ put_blocking(255)
            /\ pc' = "rt_poll_get"
            /\ UNCHANGED readings
       ELSE /\ pc' = "read_done"
            /\ readings' = <<>>
            /\ UNCHANGED <<engine, nput>>
    /\ UNCHANGED <<pin_num, calls, bits, exc, ret, searchLocals, roms, results, timeout, k,
                   b, data, busVars, changed, nreset>>

\* while timeout > 0: time.sleep_ms(10); read_byte() submits 0xFF.  When the
\* loop ends the for loop over self.roms starts.
RtPoll ==
    /\ pc = "rt_poll"
    /\ IF timeout > 0
       THEN /\ put_blocking(255)
            /\ pc' = "rt_poll_get"
            /\ UNCHANGED k
       ELSE /\ pc' = "rt_for"
            /\ k' = 0
            /\ UNCHANGED <<engine, nput>>
    /\ UNCHANGED <<pin_num, calls, bits, exc, ret, readings, searchLocals, roms, results, timeout,
                   b, data, busVars, changed, nreset>>

\* if self.ow.read_byte() == 0xFF: break; timeout -= 1
RtPollGet ==
    /\ pc = "rt_poll_get"
    /\ get_blocking
    /\ IF PollDone(TopByte(Head(rxf)))
       THEN /\ pc' = "rt_for"
            /\ k' = 0
            /\ UNCHANGED timeout
       ELSE /\ timeout' = timeout - 1
            /\ pc' = "rt_poll"
            /\ UNCHANGED k
    /\ UNCHANGED <<pin_num, calls, bits, exc, ret, readings, searchLocals, roms, results, b, data,
                   busVars, changed, nput, nreset>>

\* for rom in self.roms: rom is roms[k + 1]; the reset() of the device, or
\* return results after the last one.
RtFor ==
    /\ pc = "rt_for"
    /\ IF k < Len(roms)
       THEN /\ init_sm(bits)
            /\ nreset' = nreset + 1
            /\ pc' = "rt_dev_reset"
            /\ UNCHANGED readings
       ELSE /\ readings' = results
            /\ pc' = "read_done"
            /\ UNCHANGED <<bits, engine, nreset>>
    /\ UNCHANGED <<pin_num, calls, exc, ret, searchLocals, roms, results, timeout, k, b, data, busVars,
                   changed, nput>>

\* if self.ow.reset(): ... (there is no else: the loop goes on to the next rom)
RtDevReset ==
    /\ pc = "rt_dev_reset"
    /\ get_blocking
    /\ IF Presence(Head(rxf))
       THEN /\ pc' = "rt_match_put"
            /\ UNCHANGED k
       ELSE /\ k' = k + 1
            /\ pc' = "rt_for"
    /\ UNCHANGED <<pin_num, calls, bits, exc, ret, readings, searchLocals, roms, results, timeout,
                   b, data, busVars, changed, nput, nreset>>

\* self.ow.write_byte(self.ow.MATCH_ROM)
RtMatchPut ==
    /\ pc = "rt_match_put"
    /\ put_blocking(MATCH_ROM)
    /\ pc' = "rt_match_get"
    /\ UNCHANGED putFrame

RtMatchGet ==
    /\ pc = "rt_match_get"
    /\ get_blocking
    /\ pc' = "rt_rom_put"
    /\ b' = 0
    /\ UNCHANGED <<pin_num, calls, bits, exc, ret, readings, searchLocals, roms, results, timeout,
                   k, data, busVars, changed, nput, nreset>>

\* for b in range(8): self.ow.write_byte((rom >> (b * 8)) & 0xFF)
RtRomPut ==
    /\ pc = "rt_rom_put"
    /\ put_blocking(RomByte(roms[k + 1], b))
    /\ pc' = "rt_rom_get"
    /\ UNCHANGED putFrame

RtRomGet ==
    /\ pc = "rt_rom_get"
    /\ get_blocking
    /\ IF b + 1 < RomBytes
       THEN /\ pc' = "rt_rom_put"
            /\ b' = b + 1
       ELSE /\ pc' = "rt_pad_put"
            /\ UNCHANGED b
    /\ UNCHANGED <<pin_num, calls, bits, exc, ret, readings, searchLocals, roms, results, timeout,
                   k, data, busVars, changed, nput, nreset>>

\* self.ow.write_byte(self.ow.READ_SCRATCHPAD)
RtPadPut ==
    /\ pc = "rt_pad_put"
    /\ put_blocking(READ_SCRATCHPAD)
    /\ pc' = "rt_pad_get"
    /\ UNCHANGED putFrame

\* the echo, then data = bytearray(9) and i = 0
RtPadGet ==
    /\ pc = "rt_pad_get"
    /\ get_blocking
    /\ pc' = "rt_data_put"
    /\ data' = [j \in 1..ScratchLen |-> 0]
    /\ i' = 0
    /\ UNCHANGED <<pin_num, calls, bits, exc, ret, readings, found_roms, rom_code, last_discrepancy,
                   finished, direction, current_rom, discrepancy_marker, b1, b2,
                   roms, results, timeout, k, b, busVars, changed, nput, nreset>>

\* data[i] = self.ow.read_byte(): the 0xFF
RtDataPut ==
    /\ pc = "rt_data_put"
    /\ put_blocking(255)
    /\ pc' = "rt_data_get"
    /\ UNCHANGED putFrame

\* data[i] = (val >> 24) & 0xFF
RtDataGet ==
    /\ pc = "rt_data_get"
    /\ get_blocking
    /\ data' = [data EXCEPT ![i + 1] = TopByte(Head(rxf))]
    /\ i' = i + 1
    /\ pc' = IF i + 1 < ScratchLen THEN "rt_data_put" ELSE "rt_crc"
    /\ UNCHANGED <<pin_num, calls, bits, exc, ret, readings, found_roms, rom_code, last_discrepancy,
                   finished, direction, current_rom, discrepancy_marker, b1, b2,
                   roms, results, timeout, k, b, busVars, changed, nput, nreset>>

\* A faulty variant of the CRC branch: a failed check ends the call with the
\* entries collected so far.
RtCrc_AbortOnFailure ==
    /\ pc = "rt_crc"
    /\ results' = Append(results, Reading(roms[k + 1], data))
    /\ IF crc8(data) = 0
       THEN /\ k' = k + 1
            /\ pc' = "rt_for"
            /\ UNCHANGED readings
       ELSE /\ readings' = results'
            /\ pc' = "read_done"
            /\ UNCHANGED k
    /\ UNCHANGED <<pin_num, calls, bits, engine, exc, ret, searchLocals, roms, timeout,
                   b, data, busVars, changed, nput, nreset>>

\* if self.ow.crc8(data) == 0: results.append((rom_str, temp_c))
\* else: results.append((rom_str, None))
RtCrc ==
    /\ pc = "rt_crc"
    /\ results' = Append(results, Reading(roms[k + 1], data))
    /\ k' = k + 1
    /\ pc' = "rt_for"
    /\ UNCHANGED <<pin_num, calls, bits, engine, exc, ret, readings, searchLocals, roms, timeout,
                   b, data, busVars, changed, nput, nreset>>

\* Positions of the controller inside the try block of rom_search.
TryPcs == {"rs_while", "rs_reset", "rs_cmd_put", "rs_cmd_get", "rs_b1_put",
           "rs_b1_get", "rs_b2_put", "rs_b2_get", "rs_dir_put", "rs_dir_get"}

\* An exception (KeyboardInterrupt) raised inside the try block: control goes
\* to the finally block and the exception propagates after it.
Interrupt ==
    /\ pc \in TryPcs
    /\ exc' = TRUE
    /\ pc' = "rs_finally"
    /\ UNCHANGED <<pin_num, calls, bits, engine, ret, searchLocals, roms, readLocals,
                   busVars, changed, nput, nreset>>

\* ------------------------------------------------------------- environment

\* Every device leaves the bus (cable pulled).  The bus is observed only by
\* the presence-detect sample and by the sample of a slot, so the change is
\* taken right before one of them.
Disconnect ==
    /\ devices # {}
    /\ epc \in {"reset", "slot"}
    /\ devices' = {}
    /\ active' = {}
    /\ dphase' = "idle"
    /\ dcnt' = 0
    /\ dcmd' = 0
    /\ busy' = 0
    /\ changed' = TRUE
    /\ UNCHANGED <<pin_num, calls, bits, engine, pc, exc, ret, searchLocals, roms,
                   readLocals, pads, gpio, nput, nreset>>

\* ------------------------------------------------------------------ start

Top == Pow2(RomBits - 1)

\* ROM codes of the devices that may be on the bus: they differ at the first,
\* the second and the last bit position.
Codes == {0, 1, 2, Top, Top + 1, Top + 3}

\* A scratchpad: 8 data bytes followed by their CRC.
MakePad(lsb, msb) ==
    LET body == <<lsb, msb, 75, 70, 127, 255, 12, 16>>
    IN  Append(body, crc8(body))

\* The same with one bit of byte 3 flipped on the way.
BadPad(lsb, msb) == [MakePad(lsb, msb) EXCEPT ![3] = Xor8(@, 1)]

\* After OneWire(pin_num) and DS18B20(ow): the constructor has run
\* _init_sm(bits=8), roms is empty.
InitObjects ==
    /\ bits = 8
    /\ epc = "reset"
    /\ sm_thresh = 8
    /\ x = 0
    /\ osr = 0
    /\ osrLeft = 0
    /\ isr = {}
    /\ isrCount = 0
    /\ txf = <<>>
    /\ rxf = <<>>
    /\ pc = "idle"
    /\ exc = FALSE
    /\ ret = <<>>
    /\ readings = <<>>
    /\ found_roms = <<>>
    /\ rom_code = 0
    /\ last_discrepancy = -1
    /\ finished = FALSE
    /\ i = 0
    /\ direction = 0
    /\ current_rom = 0
    /\ discrepancy_marker = -1
    /\ b1 = 0
    /\ b2 = 0
    /\ roms = <<>>
    /\ results = <<>>
    /\ timeout = 0
    /\ k = 0
    /\ b = 0
    /\ data = <<>>
    /\ active = {}
    /\ dphase = "idle"
    /\ dcnt = 0
    /\ dcmd = 0
    /\ busy = 0
    /\ changed = FALSE
    /\ nput = 0
    /\ nreset = 0
    /\ calls = 0

\* The bus pin is GPIO 0 or PIN_NUM; the GPIO that bit pin_num of the pin
\* snapshot shows may read high or low.
InitPins ==
    /\ pin_num \in {0, PIN_NUM}
    /\ gpio \in SUBSET ({(pin_num + pin_num) % 32} \ {pin_num})

Init ==
    /\ InitObjects
    /\ InitPins
    /\ devices \in {s \in SUBSET Codes : Cardinality(s) <= MaxDevices}
    /\ pads = [d \in devices |-> MakePad(144, 1)]

EngineStep ==
    \/ EngineResetSample
    \/ EngineResetFinish
    \/ EngineFetchBit
    \/ EngineSlot

SearchStep ==
    \/ ScanCall
    \/ RsWhile
    \/ RsReset
    \/ RsCmdPut
    \/ RsCmdGet
    \/ RsB1Put
    \/ RsB1Get
    \/ RsB2Put
    \/ RsB2Get
    \/ RsDirPut
    \/ RsDirGet
    \/ RsFinally
    \/ ScanReturn

Next ==
    \/ EngineStep
    \/ SearchStep
    \/ Interrupt
    \/ Disconnect

Spec == Init /\ [][Next]_vars

\* ---- scan() followed by read_temperatures()

\* The devices of a read: at most three, each with a scratchpad that arrives
\* intact or with a flipped bit.
ReadCodes == {1, 2, Top + 1}

\* The raw temperature bytes (LSB, MSB) in the scratchpad of device d.
RawOf(d) ==
    CASE d = 1 -> <<144, 1>>
      [] d = 2 -> <<94, 255>>
      [] OTHER -> <<208, 7>>

PadsOf(d) == {MakePad(RawOf(d)[1], RawOf(d)[2]), BadPad(RawOf(d)[1], RawOf(d)[2])}

InitRead ==
    /\ InitObjects
    /\ InitPins
    /\ devices \in {s \in SUBSET ReadCodes : Cardinality(s) <= MaxDevices}
    /\ pads \in {f \in [devices -> UNION {PadsOf(d) : d \in devices}] :
                    \A d \in devices : f[d] \in PadsOf(d)}

ReadStep ==
    \/ RtCall
    \/ RtReset
    \/ RtSkipPut
    \/ RtSkipGet
    \/ RtConvPut
    \/ RtConvGet
    \/ RtPoll
    \/ RtPollGet
    \/ RtFor
    \/ RtDevReset
    \/ RtMatchPut
    \/ RtMatchGet
    \/ RtRomPut
    \/ RtRomGet
    \/ RtPadPut
    \/ RtPadGet
    \/ RtDataPut
    \/ RtDataGet
    \/ RtCrc

\* The devices leave the bus while a reset sequence runs.
DisconnectAtReset ==
    /\ epc = "reset"
    /\ Disconnect

NextRead ==
    \/ EngineStep
    \/ SearchStep
    \/ ReadStep
    \/ DisconnectAtReset

SpecRead == InitRead /\ [][NextRead]_vars

\* ---- scan() followed by read_temperatures(), engine and controller fair

\* The engine is hardware that runs on its own, and the controller is a
\* sequential program that goes on whenever it is not waiting in
\* _put_blocking or _get_blocking.  Every step of the engine changes epc and
\* every step of the controller changes pc.
SpecFair ==
    /\ SpecRead
    /\ WF_epc(EngineStep)
    /\ WF_pc(SearchStep \/ ReadStep)

\* ---- crc8 on its own

\* Byte values the longer inputs of crc8 are built from.
CrcSample == {0, 1, 85, 128, 140, 255}

\* Inputs of crc8: every single byte, and the sequences over the sample.
CrcInputs ==
    {<<v>> : v \in 0..255} \cup
    UNION {[1..n -> CrcSample] : n \in 0..MaxCrcLen}

\* The objects as constructed, on an empty bus, with nothing called yet
\* (everything but pc, ret and data).
InitOther ==
    /\ pin_num = PIN_NUM
    /\ gpio = {}
    /\ devices = {}
    /\ pads = <<>>
    /\ bits = 8
    /\ epc = "reset"
    /\ sm_thresh = 8
    /\ x = 0
    /\ osr = 0
    /\ osrLeft = 0
    /\ isr = {}
    /\ isrCount = 0
    /\ txf = <<>>
    /\ rxf = <<>>
    /\ exc = FALSE
    /\ found_roms = <<>>
    /\ rom_code = 0
    /\ last_discrepancy = -1
    /\ finished = FALSE
    /\ i = 0
    /\ direction = 0
    /\ current_rom = 0
    /\ discrepancy_marker = -1
    /\ b1 = 0
    /\ b2 = 0
    /\ roms = <<>>
    /\ results = <<>>
    /\ readings = <<>>
    /\ timeout = 0
    /\ k = 0
    /\ b = 0
    /\ active = {}
    /\ dphase = "idle"
    /\ dcnt = 0
    /\ dcmd = 0
    /\ busy = 0
    /\ changed = FALSE
    /\ nput = 0
    /\ nreset = 0
    /\ calls = 0

\* What a call of a static computation leaves unchanged.
pureFrame == <<pin_num, calls, bits, engine, exc, searchLocals, roms, results,
               readings, timeout, k, b, busVars, changed, nput, nreset>>

InitCrc ==
    /\ InitOther
    /\ pc = "crc_data"
    /\ ret = <<>>
    /\ data \in CrcInputs

\* The check byte crc8(data) is added behind the data.
CrcSeal ==
    /\ pc = "crc_data"
    /\ data' = Append(data, crc8(data))
    /\ pc' = "crc_sealed"
    /\ UNCHANGED <<ret, pureFrame>>

\* One bit of one byte of the sealed sequence is flipped.
CrcFlip ==
    /\ pc = "crc_sealed"
    /\ \E n \in 1..Len(data), pos \in 0..7 :
           data' = [data EXCEPT ![n] = Xor8(@, Pow2(pos))]
    /\ pc' = "crc_flipped"
    /\ UNCHANGED <<ret, pureFrame>>

\* crc8(data) is computed over the whole sequence.
CrcVerify ==
    /\ pc \in {"crc_sealed", "crc_flipped"}
    /\ ret' = <<crc8(data)>>
    /\ pc' = IF pc = "crc_sealed" THEN "crc_sealed_done" ELSE "crc_flipped_done"
    /\ UNCHANGED <<data, pureFrame>>

NextCrc ==
    \/ CrcSeal
    \/ CrcFlip
    \/ CrcVerify

SpecCrc == InitCrc /\ [][NextCrc]_vars

\* ---- the temperature decoding on its own

\* Every pair (data[0], data[1]) of scratchpad bytes.
TempInputs == {<<lsb, msb>> : lsb \in 0..255, msb \in 0..255}

InitTemp ==
    /\ InitOther
    /\ pc = "temp_data"
    /\ ret = <<>>
    /\ data \in TempInputs

\* raw and temp_c are computed from data[0] and data[1].
TempDecode ==
    /\ pc = "temp_data"
    /\ ret' = <<Temperature(data)>>
    /\ pc' = "temp_done"
    /\ UNCHANGED <<data, pureFrame>>

NextTemp ==
    \/ TempDecode

SpecTemp == InitTemp /\ [][NextTemp]_vars

\* ---- calls in a row on the same objects

\* The devices leave the bus between two calls.
DisconnectBetween ==
    /\ pc \in BetweenCalls
    /\ Disconnect

NextAgain ==
    \/ EngineStep
    \/ SearchStep
    \/ ReadStep
    \/ Interrupt
    \/ ScanAgain
    \/ DisconnectBetween

SpecAgain == InitRead /\ [][NextAgain]_vars

\* ------------------------------------------------------------- properties

Range(s) == {s[j] : j \in 1..Len(s)}

\* Positions of the controller after rom_search has been left.
LeftSearch == {"rs_return", "scanned", "raised"}

\* Positions of rom_search reached only after a reset() that returned True.
AfterPresence == TryPcs \ {"rs_while", "rs_reset"}

\* Elements one complete pass submits: the command bits and three slots for
\* every bit position.
PassPuts == CmdBits + 3 * RomBits

\* C1: on a bus that does not change during the call, rom_search returns the
\* codes of the devices on the bus, each exactly once.
C1_SearchFindsEveryDevice ==
    (pc = "scanned" /\ ~changed) =>
        /\ Len(roms) = Cardinality(devices)
        /\ Range(roms) = devices

\* C1, where it fails: OneWire(PIN_NUM) with devices on the bus and GPIO 2
\* high: reset() reports no presence and the search returns no code.
C1_Witness ==
    /\ pc = "scanned"
    /\ ~changed
    /\ pin_num = PIN_NUM
    /\ Cardinality(devices) = 3
    /\ roms = <<>>

\* C1 on the pin for which reset() tests the bus line (pin_num = 0): the
\* search itself returns every code exactly once.
C1_OnPinZero ==
    (pc = "scanned" /\ ~changed /\ pin_num = 0) =>
        /\ Len(roms) = Cardinality(devices)
        /\ Range(roms) = devices

\* C2: on an unchanged bus with N >= 1 devices rom_search ends after N passes
\* with one reset each, a pass is the last one exactly when it set no marker,
\* and with one device the marker stays at -1.
C2_OnePassPerDevice ==
    (~changed /\ devices # {}) =>
        /\ pc = "scanned" =>
              /\ nreset = Cardinality(devices)
              /\ Len(roms) = Cardinality(devices)
        /\ (pc = "rs_while" /\ found_roms # <<>>) =>
              (finished <=> last_discrepancy = -1)
        /\ (Cardinality(devices) = 1 /\ pc \in TryPcs) => discrepancy_marker = -1

\* C2, where it fails: two devices, the search has ended after one reset and
\* no complete pass.
C2_Witness ==
    /\ pc = "scanned"
    /\ ~changed
    /\ Cardinality(devices) = 2
    /\ nreset = 1
    /\ Len(roms) = 0

\* C2 on the pin for which reset() tests the bus line (pin_num = 0).
C2_OnPinZero ==
    (~changed /\ devices # {} /\ pin_num = 0) =>
        /\ pc = "scanned" =>
              /\ nreset = Cardinality(devices)
              /\ Len(roms) = Cardinality(devices)
        /\ (pc = "rs_while" /\ found_roms # <<>>) =>
              (finished <=> last_discrepancy = -1)
        /\ (Cardinality(devices) = 1 /\ pc \in TryPcs) => discrepancy_marker = -1

\* C3: when the first reset of read_temperatures saw presence, the result has
\* one entry for every stored code, the k-th entry for the k-th code.
C3_OneEntryPerRom ==
    (pc = "read_done" /\ nreset > 1) =>
        /\ Len(readings) = Len(roms)
        /\ \A j \in 1..Len(readings) : readings[j][1] = rom_str(roms[j])

\* C3, where it fails: the first reset saw presence, the reset of a device
\* did not, and the result has fewer entries than stored codes.
C3_Witness ==
    /\ pc = "read_done"
    /\ nreset > 1
    /\ roms # <<>>
    /\ Len(readings) < Len(roms)

\* C4: when a reset inside rom_search reports no presence, the call returns
\* the codes recorded by the earlier passes.
C4_NoPresenceKeepsFound ==
    (pc = "rs_finally" /\ ~exc /\ ~finished /\ ~(b1 = 1 /\ b2 = 1)) =>
        ret = found_roms

\* C4, where it fails: a code was recorded, the reset of the next pass saw no
\* presence, and the empty list is returned.
C4_Witness ==
    /\ pc = "rs_return"
    /\ ~exc
    /\ ~finished
    /\ ~(b1 = 1 /\ b2 = 1)
    /\ found_roms # <<>>
    /\ ret = <<>>

\* C5: when both read slots of a bit position return 1, rom_search stops at
\* once: no direction bit is submitted for the position, the code under
\* construction is not recorded, and the codes of the earlier passes are
\* returned.
C5_NoAnswerStopsAtOnce ==
    (pc \in {"rs_finally", "rs_return", "scanned"} /\ ~exc /\ b1 = 1 /\ b2 = 1) =>
        /\ ret = found_roms
        /\ Len(found_roms) = nreset - 1
        /\ nput = Len(found_roms) * PassPuts + CmdBits + 3 * i + 2
        /\ txf = <<>>
        /\ pc = "scanned" => roms = found_roms

C5_Witness ==
    /\ pc = "rs_return"
    /\ ~exc
    /\ b1 = 1
    /\ b2 = 1
    /\ found_roms # <<>>
    /\ i > 0

\* C6: on a bus without devices reset reports no presence, nothing is
\* submitted to the engine, and scan returns the empty list.
C6_EmptyBusNothingSubmitted ==
    (devices = {} /\ ~changed /\ ~exc) =>
        /\ pc \notin AfterPresence
        /\ nput = 0
        /\ pc = "scanned" => roms = <<>>

\* C6, where it fails: OneWire(PIN_NUM) on an empty bus with GPIO 2 low:
\* reset() returned True and the search command has been submitted.
C6_Witness ==
    /\ devices = {}
    /\ ~changed
    /\ ~exc
    /\ pin_num = PIN_NUM
    /\ pc = "rs_b1_put"
    /\ nput = CmdBits

\* The devices whose scratchpad fails the CRC.
Corrupted == {d \in devices : crc8(pads[d]) # 0}

\* C7: a CRC failure does not end the loop over the stored codes: every
\* stored code gets its reset; with three devices that answer and one
\* corrupted scratchpad the result has None for that device and a
\* temperature for the two others, in the order of the stored codes.
C7_CrcFailureDoesNotAbort ==
    (pc = "read_done" /\ nreset > 1) =>
        /\ k = Len(roms)
        /\ nreset = 1 + Len(roms)
        /\ (~changed /\ Len(roms) = 3 /\ Cardinality(Corrupted) = 1) =>
              /\ Len(readings) = 3
              /\ \A j \in 1..3 :
                    /\ readings[j][1] = rom_str(roms[j])
                    /\ readings[j][2] = None <=> roms[j] \in Corrupted
              /\ Cardinality({j \in 1..3 : readings[j][2] = None}) = 1

C7_Witness ==
    /\ pc = "read_done"
    /\ ~changed
    /\ Len(roms) = 3
    /\ Len(readings) = 3
    /\ readings[1][2] = None
    /\ readings[2][2] # None
    /\ readings[3][2] # None

\* C8: the entry appended for a device holds a temperature exactly when crc8
\* over the 9 bytes read for it is 0, and None otherwise, whatever the poll
\* did.  (data holds the bytes of the last entry until the next read starts.)
C8_CrcIsTheOnlyGate ==
    (results # <<>> /\ pc \notin {"rt_data_put", "rt_data_get", "rt_crc"}) =>
        LET e == results[Len(results)]
        IN  /\ e[2] # None <=> crc8(data) = 0
            /\ e[2] = None <=> crc8(data) # 0
            /\ e[2] # None => e[2] = <<Temperature(data)>>

C8_Witness ==
    /\ pc = "read_done"
    /\ timeout = 0
    /\ Len(readings) = 2
    /\ readings[1][2] # None
    /\ readings[2][2] = None

\* Positions of the controller in step 1 and 2 of read_temperatures, after
\* the first reset saw presence.
PollPcs == {"rt_skip_put", "rt_skip_get", "rt_conv_put", "rt_conv_get",
            "rt_poll", "rt_poll_get"}

\* read_byte calls of the poll so far.
Polls == nput - 2

\* C9: the poll issues at most 100 read_byte calls, ends on the first 0xFF,
\* and after 100 other answers goes on to the loop over the stored codes;
\* steps 1 and 2 are left only towards that loop, and in them the engine or
\* the controller can always take its next step.
C9_PollIsBounded ==
    /\ [](pc \in {"rt_poll", "rt_poll_get"} =>
            /\ timeout \in 0..PollTimeout
            /\ Polls <= PollTimeout
            /\ Polls = PollTimeout - timeout + (IF pc = "rt_poll_get" THEN 1 ELSE 0))
    /\ []((pc = "rt_for" /\ k = 0) =>
            /\ Polls <= PollTimeout
            /\ Polls = PollTimeout - timeout + (IF timeout > 0 THEN 1 ELSE 0))
    /\ [][(pc = "rt_poll_get" /\ pc' # pc) =>
            /\ pc' = (IF TopByte(Head(rxf)) = 255 THEN "rt_for" ELSE "rt_poll")]_vars
    /\ [][(pc \in PollPcs /\ pc' \notin PollPcs) => (pc' = "rt_for" /\ k' = 0)]_vars
    /\ [](pc \in PollPcs => ENABLED (EngineStep \/ ReadStep))

C9_Witness ==
    /\ pc = "rt_for"
    /\ k = 0
    /\ timeout = 0
    /\ Polls = PollTimeout

\* C10: after rom_search has been left, by completion, by an abort or by an
\* exception, the framing width is 8 bits.
C10_FramingRestored ==
    pc \in LeftSearch => (bits = 8 /\ sm_thresh = 8)

C10_Witness ==
    /\ pc = "raised"
    /\ bits = 8
    /\ found_roms # <<>>
    /\ i > 0

\* C11: scan stores exactly the list its search returned, which holds only
\* codes recorded in that call (the empty list when the devices had left the
\* bus before the call), and no step of read_temperatures changes the
\* stored list.
C11_StoredListReplaced ==
    /\ [][(pc = "rs_return" /\ pc' = "scanned") => roms' = ret]_vars
    /\ [][(pc = "rs_return" /\ pc' = "scanned" /\ devices = {}) => roms' = <<>>]_vars
    /\ [](pc = "scanned" => (roms = ret /\ roms \in {found_roms, <<>>}))
    /\ [][ReadStep => roms' = roms]_vars

C11_Witness ==
    /\ pc = "scanned"
    /\ calls = 2
    /\ devices = {}
    /\ Len(results) = 3
    /\ roms = <<>>

\* The devices whose presence pulse reset() reads on this wiring: all of them
\* when the GPIO it tests reads low, none when that GPIO reads high.
SeenByReset == IF gpio = {} THEN devices ELSE {}

\* C12: on an unchanged bus a rom_search call returns the same codes as the
\* call whose result is stored, and the same set whatever the call before it
\* did (returned, aborted or raised); each call starts with an empty found
\* list, rom_code 0, marker -1 and finished false.
C12_SecondSearchSameCodes ==
    /\ []((pc = "rs_return" /\ ~exc /\ ~changed /\ calls >= 2 /\ roms # <<>>) =>
            /\ Range(ret) = Range(roms)
            /\ Len(ret) = Len(roms))
    /\ []((pc = "rs_return" /\ ~exc /\ ~changed) => Range(ret) = SeenByReset)
    /\ [][calls' # calls =>
            /\ found_roms' = <<>>
            /\ rom_code' = 0
            /\ last_discrepancy' = -1
            /\ finished' = FALSE]_vars

C12_Witness ==
    /\ pc = "rs_return"
    /\ ~exc
    /\ ~changed
    /\ calls = 2
    /\ Len(roms) = 3
    /\ ret = roms
    /\ results = <<>>

\* C13: crc8 over a byte sequence followed by its crc8 is 0, and with any
\* single bit of such a sequence flipped it is not 0.
C13_CrcDetectsSingleBit ==
    /\ pc = "crc_sealed_done" => ret = <<0>>
    /\ pc = "crc_flipped_done" => ret # <<0>>

C13_Witness ==
    /\ pc = "crc_flipped_done"
    /\ Len(data) = MaxCrcLen + 1
    /\ data[1] = 140
    /\ ret # <<0>>

\* The signed value of a 16-bit word in two's complement.
Signed16(w) == IF w >= 32768 THEN w - 65536 ELSE w

\* C14: the decoded temperature in sixteenths of a degree is the two's
\* complement value of the word data[1] * 256 + data[0]; 0x0190 gives 400,
\* 0xFF5E gives -162, 0x07D0 gives 2000 and 0xFC90 gives -880.
C14_TemperatureIsSigned16 ==
    pc = "temp_done" =>
        /\ ret = <<Signed16(data[2] * 256 + data[1])>>
        /\ data = <<144, 1>> => ret = <<400>>
        /\ data = <<94, 255>> => ret = <<-162>>
        /\ data = <<208, 7>> => ret = <<2000>>
        /\ data = <<144, 252>> => ret = <<-880>>

C14_Witness ==
    /\ pc = "temp_done"
    /\ data = <<94, 255>>
    /\ ret = <<-162>>

\* Positions at which the controller waits for the result element of a
\* command element: the echo of write_byte, the data of read_byte, the echo
\* or the sample of a search bit slot.
ResultGetPcs == {"rs_cmd_get", "rs_b1_get", "rs_b2_get", "rs_dir_get",
                 "rt_skip_get", "rt_conv_get", "rt_poll_get", "rt_match_get",
                 "rt_rom_get", "rt_pad_get", "rt_data_get"}

\* C15: in both framing widths the engine pushes one result element for a
\* command element, in the slot of its last bit, whatever the bits are; no
\* channel ever holds more than one element, and both are empty when the
\* controller has taken the result (write_byte or read_byte returns).
C15_OneResultPerCommand ==
    /\ [](Len(txf) <= 1 /\ Len(rxf) <= 1)
    /\ [](epc = "slot" => isrCount + osrLeft + 1 = sm_thresh)
    /\ [](epc = "fetch_bit" => isrCount + osrLeft \in {0, sm_thresh})
    /\ []((epc = "fetch_bit" /\ osrLeft = 0) => isrCount = 0)
    /\ [][(epc = "slot" /\ epc' = "fetch_bit") =>
            (Len(rxf') = Len(rxf) + 1 <=> osrLeft = 0)]_vars
    /\ [][(pc \in ResultGetPcs /\ pc' # pc) =>
            (txf' = <<>> /\ rxf' = <<>> /\ isrCount' = 0 /\ osrLeft' = 0)]_vars

C15_Witness ==
    /\ pc = "rt_conv_put"
    /\ bits = 8
    /\ roms # <<>>
    /\ txf = <<>>
    /\ rxf = <<>>
    /\ epc = "fetch_bit"

\* The engine waits for a command: no reset sequence and no bit slot is in
\* progress, no element is pending or partly shifted.
EngineIdle ==
    /\ epc = "fetch_bit"
    /\ txf = <<>>
    /\ osrLeft = 0
    /\ isrCount = 0

\* The steps of the controller that run _init_sm: at the start of rom_search,
\* in reset() and in the finally block.
Reinit ==
    \/ ScanCall
    \/ ScanAgain
    \/ ~finished /\ RsWhile
    \/ RsFinally
    \/ roms # <<>> /\ RtCall
    \/ k < Len(roms) /\ RtFor

\* C16: every re-initialization is taken while the engine is idle.
C16_ReinitOnlyWhenIdle ==
    [][Reinit => EngineIdle]_vars

\* C16, where it fails: rom_search has run _init_sm(bits=1), the reset
\* sequence that started is past its sample and not finished, and the next
\* step of the controller is the _init_sm of its first reset().
C16_Witness ==
    /\ pc = "rs_while"
    /\ nreset = 0
    /\ ~finished
    /\ epc = "reset_finish"
    /\ rxf # <<>>

\* C16 for bit slots: unless an exception interrupted the search, no
\* re-initialization abandons a bit slot or a pending or partly shifted
\* element; what it abandons is a reset sequence.
C16_NoSlotAbandoned ==
    [][(Reinit /\ ~exc) =>
          (epc # "slot" /\ txf = <<>> /\ osrLeft = 0 /\ isrCount = 0)]_vars

\* Positions of rom_search at which the search command is sent.
CmdPcs == {"rs_cmd_put", "rs_cmd_get"}

\* C17 as the spec states it: the search command is sent while the framing
\* width is 8 bits.
C17_CommandInByteFraming ==
    pc \in CmdPcs => (bits = 8 /\ sm_thresh = 8)

\* C17 as the code has it: the framing width is 1 bit from the start of
\* rom_search, before the reset of the pass; the search command is sent in
\* that framing as 8 elements of one bit, least significant bit first, the
\* devices on the bus receive it as SEARCH_ROM, and the state machine is not
\* restarted between the reset and the bit positions.
C17_CommandSentBitwise ==
    /\ pc \in TryPcs => (bits = 1 /\ sm_thresh = 1)
    /\ pc \in AfterPresence => epc # "reset"
    /\ (pc = "rs_cmd_put" /\ ~changed /\ devices # {}) =>
          /\ dphase = "romcmd"
          /\ dcnt = i
          /\ dcmd = SEARCH_ROM % Pow2(i)
          /\ nput = Len(found_roms) * PassPuts + i
    /\ (pc = "rs_b1_put" /\ i = 0 /\ ~changed /\ devices # {}) =>
          /\ dphase = "search0"
          /\ active = devices
          /\ nput = Len(found_roms) * PassPuts + CmdBits

C17_Witness ==
    /\ pc = "rs_b1_put"
    /\ i = 0
    /\ bits = 1
    /\ devices # {}
    /\ dphase = "search0"
    /\ found_roms # <<>>
    /\ nput = PassPuts + CmdBits

\* Positions at which the controller is inside reset(), _put_blocking or
\* _get_blocking.
BlockingPcs == (TryPcs \ {"rs_while"}) \cup
               {"rt_reset", "rt_skip_put", "rt_skip_get", "rt_conv_put",
                "rt_conv_get", "rt_poll_get", "rt_dev_reset", "rt_match_put",
                "rt_match_get", "rt_rom_put", "rt_rom_get", "rt_pad_put",
                "rt_pad_get", "rt_data_put", "rt_data_get"}

\* C18: with the engine and the controller scheduled fairly, the controller
\* does not stay for ever at a position at which it may wait: scan followed
\* by read_temperatures returns, so every reset, _put_blocking and
\* _get_blocking on the way has returned.
C18_ControllerNeverBlocks ==
    /\ <>[](pc = "read_done")
    /\ [](pc \in BlockingPcs => ENABLED (EngineStep \/ SearchStep \/ ReadStep))

C18_Witness ==
    /\ pc = "rt_poll_get"
    /\ rxf = <<>>
    /\ txf = <<>>
    /\ osrLeft > 0
    /\ timeout = 1

\* Positions where the controller submits a command element.
CommandPutPcs == {"rs_cmd_put", "rs_b1_put", "rs_b2_put", "rs_dir_put",
                  "rt_skip_put", "rt_conv_put", "rt_poll", "rt_match_put",
                  "rt_rom_put", "rt_pad_put", "rt_data_put"}

\* Positions where reset() waits for the presence sample.
ResetGetPcs == {"rs_reset", "rt_reset", "rt_dev_reset"}

\* C19: every element the controller takes was produced for the operation
\* that takes it.  A re-initialization empties the output channel and starts
\* the reset sequence whose sample the reset() that follows it takes; while
\* reset() waits, the channel holds an element exactly when that sequence
\* has pushed its sample, and no bit slot runs.  A command is submitted with
\* the output channel empty and no reset sequence in progress, so the only
\* element pushed before its result is taken is the one of its own slots;
\* a presence sample is never pushed while a command is in progress.  (The
\* result of a command that an exception interrupted is pushed while the
\* finally block is about to run, and its re-initialization drops it.)
C19_ResultBelongsToOperation ==
    /\ [][Reinit => (rxf' = <<>> /\ txf' = <<>> /\ epc' = "reset")]_vars
    /\ [](pc \in ResetGetPcs =>
            /\ rxf = <<>> <=> epc = "reset"
            /\ epc # "slot"
            /\ txf = <<>>
            /\ osrLeft = 0)
    /\ [](pc \in CommandPutPcs =>
            (rxf = <<>> /\ epc \in {"reset_finish", "fetch_bit"} /\ isrCount = 0))
    /\ [](pc \in ResultGetPcs => (epc # "reset" /\ Len(rxf) <= 1))
    /\ [][Len(rxf') > Len(rxf) =>
            /\ rxf = <<>>
            /\ epc = "reset" => pc \notin (CommandPutPcs \cup ResultGetPcs)
            /\ epc # "reset" => (epc = "slot" /\ pc \in ResultGetPcs \cup {"rs_finally"})]_vars

\* The sample of the re-initialization at the end of rom_search was pushed
\* and dropped, and read_temperatures waits for the echo of its first command
\* with the result in the channel.
C19_Witness ==
    /\ pc = "rt_skip_get"
    /\ nreset = 1
    /\ Len(roms) = 2
    /\ rxf # <<>>
    /\ epc = "fetch_bit"

\* The positions where the codes a and c differ.
DiffBits(a, c) == {n \in 0..(RomBits - 1) : BitOf(a, n) # BitOf(c, n)}

\* The lowest member of a nonempty set of positions.
Lowest(S) == CHOOSE n \in S : \A m \in S : n <= m

\* a comes before c when the codes are compared bit by bit from bit 0 upward.
Before(a, c) == a # c /\ BitOf(a, Lowest(DiffBits(a, c))) = 0

\* C20: on an unchanged bus every recorded code comes, in the order that
\* compares from bit 0 upward, strictly after the one recorded before it, no
\* code is recorded twice, and the marker carried into a pass is a position
\* where the code recorded last has bit 0; the next code agrees with it below
\* that position and has bit 1 there.
C20_RecordedInBitOrder ==
    ~changed =>
        /\ \A n \in 1..(Len(found_roms) - 1) : Before(found_roms[n], found_roms[n + 1])
        /\ \A m, n \in 1..Len(found_roms) : m # n => found_roms[m] # found_roms[n]
        /\ (pc \in TryPcs /\ found_roms # <<>>) => rom_code = found_roms[Len(found_roms)]
        /\ (pc \in TryPcs /\ last_discrepancy # -1) =>
                /\ found_roms # <<>>
                /\ BitOf(rom_code, last_discrepancy) = 0
        /\ \A n \in 1..(Len(found_roms) - 1) :
                LET d == Lowest(DiffBits(found_roms[n], found_roms[n + 1]))
                IN  /\ BitOf(found_roms[n], d) = 0
                    /\ BitOf(found_roms[n + 1], d) = 1

\* Two codes are recorded and a third pass starts with a marker carried over.
C20_Witness ==
    /\ pc = "rs_b1_put"
    /\ ~changed
    /\ Len(found_roms) = 2
    /\ last_discrepancy # -1
    /\ i = last_discrepancy
====
